---- MODULE Spec2Model ----
(***************************************************************************)
(* Model of apscheduler/threadpool.py: class ThreadPool.                   *)
(*                                                                         *)
(* Threads of the model: submitter threads, each calling execute() over    *)
(* and over, and the worker threads that execute() starts, each running    *)
(* _run_jobs(core).  A thread's position in its code is its pc.  The       *)
(* steps are the places where the code touches shared state: the lock      *)
(* threads_lock, the counters num_threads / busy_threads and the Queue.    *)
(***************************************************************************)
EXTENDS Integers, Sequences, FiniteSets, TLC

(* ------------------------------ bounds --------------------------------- *)

\* number of submitter threads calling execute() concurrently
NumSubmitters == 2

\* total number of execute() calls made in a behaviour
MaxCalls == 2

\* number of execute() calls followed in the scenarios that fix one
\* configuration of the pool
ScenarioCalls == MaxCalls + 1

\* largest core_threads argument tried
MaxCoreArg == 2

\* largest max_threads argument tried
MaxMaxArg == 2

(* --------------------------- value domains ----------------------------- *)

\* Python's None for max_threads.  The code only ever tests max_threads for
\* truth (lines 33, 37, 87) and compares num_threads < max_threads (line 87);
\* in Python 2 `n < None` is False for every int n, and `not None` is True,
\* which is exactly how 0 behaves for the non-negative num_threads.  None and
\* 0 are therefore one value here.
None == 0

Submitters == 1..NumSubmitters

\* execute() starts at most one thread per call, so one thread slot per
\* call suffices and no call is ever refused a thread by the model.
Workers == 1..ScenarioCalls

Tasks == 1..ScenarioCalls

CoreArgs == 0..MaxCoreArg

MaxArgs == {None} \cup (1..MaxMaxArg)

\* keepalive <= 0 (non-blocking get) and keepalive > 0 (get with timeout)
KeepaliveArgs == {0, 1}

\* owner of threads_lock
Free == <<>>

Sub(s) == <<"submitter", s>>

VARIABLES
    arg_max_threads,    \* the max_threads argument given to __init__
    core_threads,       \* self.core_threads
    max_threads,        \* self.max_threads (None or the clamped ceiling)
    keepalive,          \* self.keepalive
    exception_callback, \* TRUE iff self.exception_callback is set
    call_limit,         \* number of execute() calls the callers will make
    num_threads,        \* self.num_threads
    busy_threads,       \* self.busy_threads
    threads_lock,       \* self.threads_lock: Free or the thread holding it
    queue,              \* self.queue: sequence of task ids, head first
    spc,                \* submitter -> position in execute()
    calls,              \* number of execute() calls begun so far
    created,            \* number of threads started by _add_thread so far
    wpc,                \* worker -> position in _run_jobs()
    wcore,              \* worker -> its `core` argument
    wtask,              \* worker -> task it holds (0: none)
    runs,               \* task -> number of times func() was invoked
    outcome,            \* task -> "none", "returned" or "raised"
    callbacks,          \* task -> number of exception_callback() calls for it
    dequeued            \* tasks in the order of queue.get()

\* what is fixed for a whole behaviour
config == <<arg_max_threads, core_threads, max_threads, keepalive,
            exception_callback, call_limit>>

counters == <<num_threads, busy_threads>>

submitters == <<spc, calls>>

workers == <<wpc, wcore, wtask, created>>

history == <<runs, outcome, callbacks, dequeued>>

vars == <<config, counters, threads_lock, queue, submitters, workers, history>>

(* ------------------------------ __init__ ------------------------------- *)

Max(a, b) == IF a >= b THEN a ELSE b

\* as ClampMaxThreads, but the ceiling is not raised to core_threads
ClampMaxThreads_NoCore(maxArg, coreArg) ==
    IF maxArg # None
        THEN Max(maxArg, 1)
        ELSE maxArg

\* lines 29, 33-34: self.max_threads after construction
ClampMaxThreads(maxArg, coreArg) ==
    IF maxArg # None
        THEN Max(Max(maxArg, coreArg), 1)
        ELSE maxArg

\* as InitState, but the constructor has started and counted the core threads
InitState_Prestarted ==
    /\ num_threads = core_threads
    /\ busy_threads = 0
    /\ threads_lock = Free
    /\ queue = <<>>
    /\ spc = [s \in Submitters |-> "ready"]
    /\ calls = 0
    /\ created = core_threads
    /\ wpc = [w \in Workers |-> IF w <= core_threads THEN "idle" ELSE "unborn"]
    /\ wcore = [w \in Workers |-> w <= core_threads]
    /\ wtask = [w \in Workers |-> 0]
    /\ runs = [t \in Tasks |-> 0]
    /\ outcome = [t \in Tasks |-> "none"]
    /\ callbacks = [t \in Tasks |-> 0]
    /\ dequeued = <<>>

\* lines 24-27: a new pool has an empty queue, a free lock, no thread and
\* both counters at 0; no thread is started by the constructor
InitState ==
    /\ num_threads = 0
    /\ busy_threads = 0
    /\ threads_lock = Free
    /\ queue = <<>>
    /\ spc = [s \in Submitters |-> "ready"]
    /\ calls = 0
    /\ created = 0
    /\ wpc = [w \in Workers |-> "unborn"]
    /\ wcore = [w \in Workers |-> FALSE]
    /\ wtask = [w \in Workers |-> 0]
    /\ runs = [t \in Tasks |-> 0]
    /\ outcome = [t \in Tasks |-> "none"]
    /\ callbacks = [t \in Tasks |-> 0]
    /\ dequeued = <<>>

\* lines 28-34: the constructor's arguments as stored
InitConfig(maxArg, coreArg) ==
    /\ arg_max_threads = maxArg
    /\ core_threads = coreArg
    /\ max_threads = ClampMaxThreads(maxArg, coreArg)
    /\ keepalive \in KeepaliveArgs
    /\ exception_callback \in BOOLEAN

Init ==
    /\ \E maxArg \in MaxArgs, coreArg \in CoreArgs : InitConfig(maxArg, coreArg)
    /\ call_limit = MaxCalls
    /\ InitState

(* ------------------------------ execute -------------------------------- *)

\* line 84: self.threads_lock.acquire()
Execute_Acquire(s) ==
    /\ spc[s] = "ready"
    /\ calls < call_limit
    /\ threads_lock = Free
    /\ threads_lock' = Sub(s)
    /\ calls' = calls + 1
    /\ spc' = [spc EXCEPT ![s] = "locked"]
    /\ UNCHANGED <<config, counters, queue, workers, history>>

\* as SpawnPredicate, but read as `A and (not B or C)`
SpawnPredicate_AllBusyAnd ==
    /\ busy_threads = num_threads
    /\ (max_threads = None \/ num_threads < max_threads)

\* lines 86-87: Python parses `A and not B or C` as `(A and (not B)) or C`
SpawnPredicate ==
    \/ (busy_threads = num_threads /\ max_threads = None)
    \/ num_threads < max_threads

\* line 40: the core flag handed to the new thread
CoreFlag == num_threads < core_threads

\* as Execute_Decide, but without the finally clause: the lock stays taken
Execute_Decide_NoRelease(s) ==
    /\ spc[s] = "locked"
    /\ IF SpawnPredicate
          THEN /\ created' = created + 1
               /\ wpc' = [wpc EXCEPT ![created + 1] = "start"]
               /\ wcore' = [wcore EXCEPT ![created + 1] = CoreFlag]
          ELSE UNCHANGED <<created, wpc, wcore>>
    /\ spc' = [spc EXCEPT ![s] = "put"]
    /\ UNCHANGED <<config, counters, threads_lock, queue, calls, wtask, history>>

\* lines 86-90 with _add_thread (39-43): the thread is started while the
\* lock is held and is not counted in num_threads until it registers
\* itself; then the finally clause releases the lock
Execute_Decide(s) ==
    /\ spc[s] = "locked"
    /\ IF SpawnPredicate
          THEN /\ created' = created + 1
               /\ wpc' = [wpc EXCEPT ![created + 1] = "start"]
               /\ wcore' = [wcore EXCEPT ![created + 1] = CoreFlag]
          ELSE UNCHANGED <<created, wpc, wcore>>
    /\ threads_lock' = Free
    /\ spc' = [spc EXCEPT ![s] = "put"]
    /\ UNCHANGED <<config, counters, queue, calls, wtask, history>>

\* the tasks put on the queue so far, in the order of the puts: a task is
\* named by the position of its put
Enqueued == Len(dequeued) + Len(queue)

\* line 92: self.queue.put((func, args, kwargs)); the Queue is unbounded
Execute_Put(s) ==
    /\ spc[s] = "put"
    /\ queue' = Append(queue, Enqueued + 1)
    /\ spc' = [spc EXCEPT ![s] = "ready"]
    /\ UNCHANGED <<config, counters, threads_lock, calls, workers, history>>

(* ------------------------------ _run_jobs ------------------------------ *)

\* lines 45-48: acquire; self.num_threads += increment; release.  The
\* critical section is this one statement, so it is one step, taken when
\* the lock is free.
AddThreadcount(increment) ==
    /\ threads_lock = Free
    /\ num_threads' = num_threads + increment
    /\ UNCHANGED <<busy_threads, threads_lock>>

\* lines 50-53: acquire; self.busy_threads += increment; release
AddBusycount(increment) ==
    /\ threads_lock = Free
    /\ busy_threads' = busy_threads + increment
    /\ UNCHANGED <<num_threads, threads_lock>>

\* as Start_Register, but the worker does not count itself
Start_Register_Uncounted(w) ==
    /\ wpc[w] = "start"
    /\ AddThreadcount(0)
    /\ wpc' = [wpc EXCEPT ![w] = "idle"]
    /\ UNCHANGED <<config, queue, submitters, wcore, wtask, created, history>>

\* lines 56-57: the thread starts and counts itself: _add_threadcount(1)
Start_Register(w) ==
    /\ wpc[w] = "start"
    /\ AddThreadcount(1)
    /\ wpc' = [wpc EXCEPT ![w] = "idle"]
    /\ UNCHANGED <<config, queue, submitters, wcore, wtask, created, history>>

\* as Block, but without the `if not core` guard of line 61
Block_IgnoringCore(core) == keepalive > 0

\* lines 59-63: the arguments of queue.get for a worker with this core flag
Block(core) == IF core THEN TRUE ELSE keepalive > 0

HasTimeout(core) == ~core

\* Queue.get(block, timeout) raises Empty only on an empty queue, and then
\* only if it does not block or its timeout can run out
MayRaiseEmpty(core) == ~Block(core) \/ HasTimeout(core)

\* as Get_Task, but the queue hands out its newest entry
Get_Task_Lifo(w) ==
    /\ wpc[w] = "idle"
    /\ queue # <<>>
    /\ wtask' = [wtask EXCEPT ![w] = queue[Len(queue)]]
    /\ queue' = SubSeq(queue, 1, Len(queue) - 1)
    /\ dequeued' = Append(dequeued, queue[Len(queue)])
    /\ wpc' = [wpc EXCEPT ![w] = "got"]
    /\ UNCHANGED <<config, counters, threads_lock, submitters, wcore, created,
                   runs, outcome, callbacks>>

\* as Get_Task, but the entry is read without being removed
Get_Task_Peek(w) ==
    /\ wpc[w] = "idle"
    /\ queue # <<>>
    /\ wtask' = [wtask EXCEPT ![w] = Head(queue)]
    /\ dequeued' = Append(dequeued, Head(queue))
    /\ wpc' = [wpc EXCEPT ![w] = "got"]
    /\ UNCHANGED <<config, counters, threads_lock, queue, submitters, wcore,
                   created, runs, outcome, callbacks>>

\* line 67: queue.get delivers the head of the queue
Get_Task(w) ==
    /\ wpc[w] = "idle"
    /\ queue # <<>>
    /\ wtask' = [wtask EXCEPT ![w] = Head(queue)]
    /\ queue' = Tail(queue)
    /\ dequeued' = Append(dequeued, Head(queue))
    /\ wpc' = [wpc EXCEPT ![w] = "got"]
    /\ UNCHANGED <<config, counters, threads_lock, submitters, wcore, created,
                   runs, outcome, callbacks>>

\* lines 67-69: queue.get raises Empty; break
Get_Empty(w) ==
    /\ wpc[w] = "idle"
    /\ queue = <<>>
    /\ MayRaiseEmpty(wcore[w])
    /\ wpc' = [wpc EXCEPT ![w] = "exit"]
    /\ UNCHANGED <<config, counters, threads_lock, queue, submitters, wcore,
                   wtask, created, history>>

\* line 71: self._add_busycount(1)
Busy_Inc(w) ==
    /\ wpc[w] = "got"
    /\ AddBusycount(1)
    /\ wpc' = [wpc EXCEPT ![w] = "run"]
    /\ UNCHANGED <<config, queue, submitters, wcore, wtask, created, history>>

\* line 73: func(*args, **kwargs) returns, or raises into the except clause
Run_Task(w) ==
    /\ wpc[w] = "run"
    /\ runs' = [runs EXCEPT ![wtask[w]] = @ + 1]
    /\ \/ /\ outcome' = [outcome EXCEPT ![wtask[w]] = "returned"]
          /\ wpc' = [wpc EXCEPT ![w] = "done"]
       \/ /\ outcome' = [outcome EXCEPT ![wtask[w]] = "raised"]
          /\ wpc' = [wpc EXCEPT ![w] = "except"]
    /\ UNCHANGED <<config, counters, threads_lock, queue, submitters, wcore,
                   wtask, created, callbacks, dequeued>>

\* as Handle_Exception, but the callback is never called
Handle_Exception_NoCallback(w) ==
    /\ wpc[w] = "except"
    /\ wpc' = [wpc EXCEPT ![w] = "done"]
    /\ UNCHANGED <<config, counters, threads_lock, queue, submitters, wcore,
                   wtask, created, history>>

\* lines 74-77: the except clause.  The callback is the caller's code: it
\* returns, or it raises, and then nothing in _run_jobs catches that: the
\* thread dies at line 77 without reaching lines 78 and 80.
Handle_Exception(w) ==
    /\ wpc[w] = "except"
    /\ IF exception_callback
          THEN /\ callbacks' = [callbacks EXCEPT ![wtask[w]] = @ + 1]
               /\ \/ wpc' = [wpc EXCEPT ![w] = "done"]
                  \/ wpc' = [wpc EXCEPT ![w] = "crashed"]
          ELSE /\ callbacks' = callbacks
               /\ wpc' = [wpc EXCEPT ![w] = "done"]
    /\ UNCHANGED <<config, counters, threads_lock, queue, submitters, wcore,
                   wtask, created, runs, outcome, dequeued>>

\* as Busy_Dec, but the worker leaves the loop after its task
Busy_Dec_ThenExit(w) ==
    /\ wpc[w] = "done"
    /\ AddBusycount(-1)
    /\ wpc' = [wpc EXCEPT ![w] = "exit"]
    /\ wtask' = [wtask EXCEPT ![w] = 0]
    /\ UNCHANGED <<config, queue, submitters, wcore, created, history>>

\* line 78: self._add_busycount(-1), and round the loop again with no task
Busy_Dec(w) ==
    /\ wpc[w] = "done"
    /\ AddBusycount(-1)
    /\ wpc' = [wpc EXCEPT ![w] = "idle"]
    /\ wtask' = [wtask EXCEPT ![w] = 0]
    /\ UNCHANGED <<config, queue, submitters, wcore, created, history>>

\* lines 80-81: self._add_threadcount(-1); the thread ends
Exit_Unregister(w) ==
    /\ wpc[w] = "exit"
    /\ AddThreadcount(-1)
    /\ wpc' = [wpc EXCEPT ![w] = "terminated"]
    /\ UNCHANGED <<config, queue, submitters, wcore, wtask, created, history>>

(* --------------------------- specification ----------------------------- *)

SubmitterStep(s) ==
    \/ Execute_Acquire(s)
    \/ Execute_Decide(s)
    \/ Execute_Put(s)

WorkerStep(w) ==
    \/ Start_Register(w)
    \/ Get_Task(w)
    \/ Get_Empty(w)
    \/ Busy_Inc(w)
    \/ Run_Task(w)
    \/ Handle_Exception(w)
    \/ Busy_Dec(w)
    \/ Exit_Unregister(w)

Next ==
    \/ \E s \in Submitters : SubmitterStep(s)
    \/ \E w \in Workers : WorkerStep(w)

Spec == Init /\ [][Next]_vars

\* Scheduling is fair to every started thread: a worker that can take a step
\* takes one, a timed wait on an empty queue runs out, and a submitter inside
\* execute() finishes the call.  Nothing obliges a submitter to call again.
Fairness ==
    /\ \A w \in Workers : WF_vars(WorkerStep(w))
    /\ \A s \in Submitters : WF_vars(Execute_Decide(s) \/ Execute_Put(s))

FairSpec == Spec /\ Fairness

\* ThreadPool(core_threads=0): no core workers, no ceiling
InitNoCoreNoCeiling == Init /\ core_threads = 0 /\ arg_max_threads = None

SpecNoCoreNoCeiling == InitNoCoreNoCeiling /\ [][Next]_vars

\* ThreadPool(core_threads=0, max_threads=1)
InitSingleWorker == Init /\ core_threads = 0 /\ arg_max_threads = 1

SpecSingleWorker == InitSingleWorker /\ [][Next]_vars

\* ThreadPool(core_threads=2, max_threads=4, keepalive > 0), whose callers
\* submit tasks one after another; the first ScenarioCalls calls are followed
InitTwoCoreFourMax ==
    /\ InitConfig(4, 2)
    /\ keepalive > 0
    /\ call_limit = ScenarioCalls
    /\ InitState

SpecTwoCoreFourMax == InitTwoCoreFourMax /\ [][Next]_vars

\* ThreadPool(core_threads=3, max_threads=3)
InitThreeCoreThreeMax ==
    /\ InitConfig(3, 3)
    /\ call_limit = MaxCalls
    /\ InitState

\* every configuration of Init, and that one as well
SpecWithThreeCoreThreeMax ==
    (Init \/ InitThreeCoreThreeMax) /\ [][Next]_vars

\* ThreadPool(core_threads >= 1), with or without a ceiling
InitWithCore == Init /\ core_threads >= 1

SpecWithCore == InitWithCore /\ [][Next]_vars

(* ------------------------------ properties ----------------------------- *)

\* a thread that was started and has not ended
Live(w) == wpc[w] \notin {"unborn", "terminated", "crashed"}

\* no submitter is inside execute()
NoCallInProgress == \A s \in Submitters : spc[s] = "ready"

\* C1: with core_threads = 0 and no ceiling, once the submitters have made
\* their N calls and every worker has run to its end, each of the N tasks
\* has been run exactly once: none is left in the queue with no live worker.
C1_AllTasksRunOnce ==
    (NoCallInProgress /\ \A w \in Workers : ~Live(w))
        => (queue = <<>> /\ \A t \in 1..calls : runs[t] = 1)

\* C2: when a ceiling is configured, num_threads never exceeds the clamped
\* ceiling max(max_threads, core_threads, 1).
C2_CeilingRespected ==
    arg_max_threads # None
        => num_threads <= Max(Max(arg_max_threads, core_threads), 1)

\* C3: busy_threads <= num_threads in every reachable state.
C3_BusyAtMostTotal == busy_threads <= num_threads

\* both workers registered and both running a task: the counters are equal
C3_Witness ==
    /\ num_threads = 2
    /\ busy_threads = 2
    /\ \E w \in Workers : wpc[w] = "except"

\* C4: with an exception callback configured, the callback has been called
\* exactly once for every task whose invocation raised, as soon as the
\* worker that ran it has left the except clause (so before it dequeues
\* again), and never for a task that has not raised.
C4_CallbackOncePerFailure ==
    exception_callback =>
        \A t \in Tasks :
            callbacks[t] =
                IF /\ outcome[t] = "raised"
                   /\ ~\E w \in Workers : wpc[w] = "except" /\ wtask[w] = t
                    THEN 1
                    ELSE 0

\* one task has raised and was reported once, another returned unreported
C4_Witness ==
    /\ exception_callback
    /\ \E t \in Tasks : outcome[t] = "raised" /\ callbacks[t] = 1
    /\ \E t \in Tasks : outcome[t] = "returned" /\ callbacks[t] = 0
    /\ \A w \in Workers : wpc[w] # "crashed"

\* C5: a task failure never terminates its worker: a worker whose task has
\* raised is on its way to decrementing busy_threads and back to the queue.
C5_FailureKeepsWorker ==
    \A w \in Workers :
        (wtask[w] # 0 /\ outcome[wtask[w]] = "raised")
            => wpc[w] \in {"except", "done"}

TransientExitCompletes ==
    \A w \in Workers : (wpc[w] = "exit") ~> (wpc[w] = "terminated")

Settled ==
    /\ NoCallInProgress
    /\ queue = <<>>
    /\ \A w \in Workers : wpc[w] \in {"unborn", "idle", "terminated", "crashed"}

C8_BusyReturnsToZero == Settled => busy_threads = 0

\* C9: the constructor stores max(max_threads, core_threads, 1) as the
\* ceiling when max_threads is given, and no ceiling when it is not.
C9_CeilingClamped ==
    IF arg_max_threads # None
        THEN /\ max_threads \in {arg_max_threads, core_threads, 1}
             /\ max_threads >= arg_max_threads
             /\ max_threads >= core_threads
             /\ max_threads >= 1
        ELSE max_threads = None

\* a pool built with max_threads below core_threads, in use
C9_Witness ==
    /\ core_threads = 2
    /\ arg_max_threads = 1
    /\ max_threads = 2
    /\ Enqueued >= 1

\* C10: with core_threads = 0 and max_threads = 1 at most one worker thread
\* is alive at a time and at most one task is executing at any moment.
C10_OneWorkerOneTask ==
    /\ Cardinality({w \in Workers : Live(w)}) <= 1
    /\ Cardinality({w \in Workers : wpc[w] \in {"run", "except"}}) <= 1

\* C11: with core_threads = 2, max_threads = 4 and keepalive > 0 exactly two
\* workers are core, the first two, and every later worker is transient; so
\* once two or more tasks are in, no call is in progress, the queue is empty
\* and only core workers are left waiting, num_threads is exactly 2.
C11_SettlesToCoreCount ==
    /\ Cardinality({w \in Workers : wcore[w]}) <= 2
    /\ \A w \in Workers : wcore[w] => w <= 2
    /\ (/\ NoCallInProgress
        /\ calls >= 2
        /\ queue = <<>>
        /\ \A w \in Workers : wpc[w] \in {"unborn", "terminated"}
                                 \/ (wcore[w] /\ wpc[w] = "idle"))
           => num_threads = 2

\* C12 as claimed: a pool built with core_threads = 3 and max_threads = 3 has
\* num_threads = 3 for as long as no task has been submitted.
C12_IdlePoolHasThreeWorkers ==
    (core_threads = 3 /\ arg_max_threads = 3 /\ calls = 0) => num_threads = 3

\* C12 as amended: such a pool has no worker thread and num_threads = 0 for
\* as long as execute() has not been called; threads are started by execute().
C12_IdlePoolHasNoWorkers ==
    calls = 0 =>
        /\ num_threads = 0
        /\ busy_threads = 0
        /\ created = 0
        /\ \A w \in Workers : wpc[w] = "unborn"

\* the pool of the scenario after construction, before any call
C12_Witness ==
    /\ core_threads = 3
    /\ max_threads = 3
    /\ calls = 0
    /\ num_threads = 0
    /\ queue = <<>>

\* a worker about to update a counter: it waits for the lock
WaitsForLock(w) == wpc[w] \in {"start", "got", "done", "exit"}

\* C13: execute() never blocks but on the lock: the lock is held only by a
\* submitter between lines 84 and 90, which can always go on and release
\* it; a submitter past the lock can always put; a waiting worker goes on
\* as soon as the lock is free; and every call that is over has put exactly
\* one task, the last one put being at the tail of the queue.
C13_ExecuteNeverStuck ==
    /\ threads_lock = Free
          \/ \E s \in Submitters : threads_lock = Sub(s) /\ spc[s] = "locked"
    /\ \A s \in Submitters :
          /\ spc[s] = "locked" => (threads_lock = Sub(s) /\ ENABLED Execute_Decide(s))
          /\ spc[s] = "put" => ENABLED Execute_Put(s)
    /\ \A w \in Workers :
          (WaitsForLock(w) /\ threads_lock = Free) => ENABLED WorkerStep(w)
    /\ Enqueued + Cardinality({s \in Submitters : spc[s] # "ready"}) = calls
    /\ queue # <<>> => queue[Len(queue)] = Enqueued

\* under fair scheduling every call of execute() that has begun returns
\* (FairSpec)
ExecuteCompletes ==
    \A s \in Submitters : (spc[s] # "ready") ~> (spc[s] = "ready")

\* one call is over and has put its task; a second submitter holds the lock
\* while the worker that ran the task waits for it
C13_Witness ==
    /\ \E s \in Submitters : spc[s] = "locked" /\ threads_lock = Sub(s)
    /\ \E w \in Workers : wpc[w] = "done"
    /\ Enqueued = 1
    /\ calls = 2

\* C14: the step of execute() that decides starts exactly one thread if
\* (there is no ceiling and busy_threads = num_threads) or (there is a
\* ceiling and num_threads < ceiling), and none otherwise; without a ceiling
\* it starts none while a registered worker is idle; nothing else starts
\* threads.
C14_SpawnDecision ==
    [][/\ \A s \in Submitters :
            (spc[s] = "locked" /\ spc'[s] = "put") =>
                /\ created' = created +
                      (IF \/ (max_threads = None /\ busy_threads = num_threads)
                          \/ (max_threads # None /\ num_threads < max_threads)
                          THEN 1 ELSE 0)
                /\ (max_threads = None /\ \E w \in Workers : wpc[w] = "idle")
                      => created' = created
       /\ created' # created
            => \E s \in Submitters : spc[s] = "locked" /\ spc'[s] = "put"]_vars

\* under a ceiling of 2 a second thread was started although the first
\* worker was registered (so the second is not core) and never busy
C14_Witness ==
    /\ core_threads = 1
    /\ max_threads = 2
    /\ created = 2
    /\ ~wcore[2]
    /\ dequeued = <<>>

\* C15: the workers flagged core are exactly the first core_threads workers
\* ever started, so never more than core_threads of them.
C15_FirstCoreCountAreCore ==
    /\ Cardinality({w \in Workers : wcore[w]}) <= core_threads
    /\ \A w \in 1..created : wcore[w] <=> (w <= core_threads)

\* C16: the step of execute() that starts a thread increments num_threads
\* itself, before the lock is released, and the new worker does not increment
\* it on entry.
C16_CountedWhenStarted ==
    [][/\ \A s \in Submitters :
            (spc[s] = "locked" /\ spc'[s] = "put")
                => num_threads' = num_threads + (created' - created)
       /\ \A w \in Workers :
            (wpc[w] = "start" /\ wpc'[w] = "idle")
                => num_threads' = num_threads]_vars

\* C17: tasks leave the queue in the order in which they were put (a task
\* is named by the position of its put), and a worker takes a task only
\* when it holds none and runs only the task it took, so what one worker
\* runs is in put order too.
C17_Fifo ==
    /\ [](dequeued \o queue = [i \in 1..Enqueued |-> i])
    /\ [][\A w \in Workers :
            /\ (wtask'[w] # wtask[w] /\ wtask'[w] # 0)
                  => (wtask[w] = 0 /\ wtask'[w] = Head(queue)
                        /\ dequeued' = Append(dequeued, Head(queue)))
            /\ (wpc[w] = "run" /\ wpc'[w] # "run")
                  => (runs'[wtask[w]] = runs[wtask[w]] + 1
                        /\ \A t \in Tasks \ {wtask[w]} : runs'[t] = runs[t])]_vars

\* the two tasks left the queue in put order, and the second has completed
\* while the first has not: completion order across workers is not put order
C17_Witness ==
    /\ dequeued = <<1, 2>>
    /\ outcome[2] # "none"
    /\ outcome[1] = "none"

\* C18: with core_threads >= 1 the first worker started is core, from then
\* on some worker is alive, and no task is left behind: when no call is in
\* progress and no worker can take a step, every task put has been run.
C18_CoreKeepsPoolAlive ==
    /\ created >= 1 => (wcore[1] /\ \E w \in Workers : Live(w))
    /\ (NoCallInProgress /\ ~ENABLED (\E w \in Workers : WorkerStep(w)))
          => (queue = <<>> /\ \A t \in 1..Enqueued : runs[t] >= 1)

\* the tasks in a sequence
Range(seq) == {seq[i] : i \in 1..Len(seq)}

\* C19: no task is run more than once, none is run that was not put and
\* taken from the queue, each queue entry is taken by one worker only, and
\* a task in the queue is not held or run by any worker.
C19_AtMostOnce ==
    /\ \A t \in Tasks : runs[t] <= 1
    /\ \A t \in Tasks : runs[t] >= 1 => (t \in 1..calls /\ t \in Range(dequeued))
    /\ \A i, j \in 1..Len(dequeued) : dequeued[i] = dequeued[j] => i = j
    /\ \A v, w \in Workers : (wtask[v] # 0 /\ wtask[v] = wtask[w]) => v = w
    /\ \A w \in Workers : wtask[w] # 0 => wtask[w] \in Range(dequeued)
    /\ \A t \in Range(queue) :
          /\ t \in 1..calls
          /\ runs[t] = 0
          /\ t \notin Range(dequeued)
          /\ \A w \in Workers : wtask[w] # t

\* two tasks were put, each was run once, by two different workers
C19_Witness ==
    /\ runs[1] = 1
    /\ runs[2] = 1
    /\ \E v, w \in Workers : v # w /\ wtask[v] = 1 /\ wtask[w] = 2

\* C20: the counters never over-count: busy_threads is at most the number
\* of live workers that have taken a task and not finished handling it,
\* num_threads is at most the number of live worker threads, and neither
\* is negative.
C20_CountersNeverOvercount ==
    /\ busy_threads >= 0
    /\ num_threads >= 0
    /\ busy_threads <= Cardinality({w \in Workers :
            wpc[w] \in {"got", "run", "except", "done"}})
    /\ num_threads <= Cardinality({w \in Workers : Live(w)})

====
